---- MODULE Spec2Model ----
(***************************************************************************)
(* Formicarium climate controller (formiclimate): the software millisecond *)
(* clock (millis.rs), the multi-rate cooperative scheduler and the         *)
(* hysteresis control algorithm of ClimateController (main.rs), with the   *)
(* relays (relay.rs) and the three PWM channels (pwm.rs).                  *)
(*                                                                         *)
(* Numbers.  f32 temperatures are kept in hundredths of a degree           *)
(* Fahrenheit (57.5 is 5750), f32 duty fractions in ten-thousandths        *)
(* (1.0 is 10000).  Every threshold of the control algorithm is a whole    *)
(* number of hundredths, and (clamp(v) - lo) / (hi - lo) is a whole number *)
(* of ten-thousandths for every v in hundredths and the two bands used.    *)
(* The u32 counters stay far below 2^32 within the horizons explored here; *)
(* SpecWrap runs the scheduler with narrower words, across the wraparound. *)
(*                                                                         *)
(* Specifications.  Spec runs the program from boot and SpecWarm from      *)
(* shortly before the grace period ends, both with the timer interrupt as  *)
(* one atomic step; SpecClock runs the interrupt handler and millis() step *)
(* by step, which is what justifies that atomic step; SpecStall is Spec    *)
(* with one loop pass held up in the LCD writes.  SpecFilter runs          *)
(* Sensorium::sample and Thermistor::kelvin channel by channel (ntc.rs),   *)
(* SpecDisplay the page logic of display.rs.  SpecNormalize, SpecConvert   *)
(* and SpecRtc apply normalize, the temperature conversion and the BCD     *)
(* functions of rtc.rs to sets of arguments.                               *)
(* SpecCatchUp lets the loop catch up with a clock that stands still, and  *)
(* SpecLive is the warm run with weak fairness on the timer and the loop.  *)
(***************************************************************************)
EXTENDS Integers, Sequences, FiniteSets, TLC

(***************************************************************************)
(* Bounds of the exploration.                                              *)
(***************************************************************************)
\* Spec: the timer interrupt is masked once MILLIS reaches this value.
MaxMillis == 10
\* SpecWarm: its first state is this many milliseconds before GRACE_PERIOD.
WarmLead == 11
\* SpecWarm: milliseconds explored past GRACE_PERIOD.
WarmRun == 10
\* SpecWarm: how many milliseconds the clock may run ahead of next_sample.
MaxLag == 1

(***************************************************************************)
(* Fixed-point representation of the f32 values.                           *)
(***************************************************************************)
F(whole, hundredths) == whole * 100 + hundredths
DutyScale(num, den) == (num * 10000) \div den

Max2(a, b) == IF a > b THEN a ELSE b
Min2(a, b) == IF a < b THEN a ELSE b
\* f32::clamp
Clamp(value, min, max) == Max2(min, Min2(value, max))

(***************************************************************************)
(* Program constants.                                                      *)
(***************************************************************************)
SAMPLE_INTERVAL == 1
UPDATE_INTERVAL == 10
DISPLAY_INTERVAL == 100
BLINK_INTERVAL == 1000
GRACE_PERIOD == 2000
TARGET_TEMP == F(57, 50)

CYCLES_PER_MICRO == 16
MICROS_PER_OVF == (64 * 256) \div CYCLES_PER_MICRO
MILLIS_INC == MICROS_PER_OVF \div 1000
FRACT_INC == (MICROS_PER_OVF % 1000) \div 8
FRACT_MAX == 1000 \div 8

\* Option<f32>
None == [some |-> FALSE, val |-> 0]
Some(v) == [some |-> TRUE, val |-> v]

Slots == {"sample", "update", "display", "blink"}

VARIABLES
    OVERFLOWS, MILLIS, FRACT,   \* millis.rs statics
    pc, now,                    \* main(): position in the loop body, local `now`
    next_sample, next_update, next_display, next_blink,
    target_temp,
    compressor, heater, master_120vac,   \* Relay.state (TRUE is Active)
    duty_a, duty_b, duty_c,     \* PWMController duties (condenser fan, habitat fan, pump)
    blink, last_page,
    sens, sens_steps,           \* Sensorium: sens in 1/1024
    reading,                    \* what fahrenheit() returns for each Thermistor
    \* history variables (not program state)
    fires,                      \* slot -> number of times its task has run
    order,                      \* tasks run so far in the current loop pass
    ctl_read,                   \* what the control algorithm read in the current pass
    begin_at,                   \* MILLIS when begin() latched the target
    rebegin,                    \* argument of the latest ignored begin()
    \* the interrupt machinery, step by step (SpecClock)
    iflag,                      \* SREG I bit: interrupts enabled
    isr_pc,                     \* TIMER0_OVF: position in the handler
    isr_millis, isr_fract,      \* TIMER0_OVF: locals `millis`, `fract`
    rd_pc, rd_bytes,            \* millis(): position, bytes of MILLIS loaded so far
    \* one call of normalize and its result (SpecNormalize)
    norm,
    \* the thermistors, channel by channel (SpecFilter); Spec and SpecWarm
    \* keep only `reading` of them and leave these as they start
    th_sample, th_kelvin,       \* Thermistor.sample (1/1024 code), Thermistor.kelvin
    sam_idx,                    \* Sensorium::sample: 0 outside, else the next statement
    th_raw,                     \* input: the ADC code of each pin during this sample()
    th_ret,                     \* history: kelvin() calls since the last sample, last result
    th_seen,                    \* history: least and greatest ADC code sampled so far
    \* one conversion of a sample value (SpecConvert)
    conv,
    \* display.rs (SpecDisplay): Display.page and Display.needs_clear, and
    \* the latest call of set_page or refresh with what it did
    display, disp_call,
    \* one call into rtc.rs and its result (SpecRtc)
    rtc,
    \* the number of bits of a u32 in this run: U32Bits, or fewer in SpecWrap
    width

clockvars == <<OVERFLOWS, MILLIS, FRACT>>
schedvars == <<next_sample, next_update, next_display, next_blink>>
actuators == <<compressor, heater, duty_a, duty_b, duty_c>>
sensvars == <<sens, sens_steps, reading>>
beginvars == <<target_temp, master_120vac, begin_at, rebegin>>
isrvars == <<iflag, isr_pc, isr_millis, isr_fract, rd_pc, rd_bytes>>
thvars == <<th_sample, th_kelvin, sam_idx, th_raw, th_ret, th_seen, conv>>
libvars == <<display, disp_call, rtc, width>>
auxvars == <<iflag, isr_pc, isr_millis, isr_fract, rd_pc, rd_bytes, norm,
             th_sample, th_kelvin, sam_idx, th_raw, th_ret, th_seen, conv,
             display, disp_call, rtc, width>>

\* u32 arithmetic: the sum modulo 2^width.  At the full width no value of
\* the runs explored comes near 2^32 and the sum is left as it is.
U32Bits == 32
U32(x) == IF width = U32Bits THEN x ELSE x % (2 ^ width)
vars == <<OVERFLOWS, MILLIS, FRACT, pc, now,
          next_sample, next_update, next_display, next_blink,
          target_temp, compressor, heater, master_120vac,
          duty_a, duty_b, duty_c, blink, last_page,
          sens, sens_steps, reading,
          fires, order, ctl_read, begin_at, rebegin,
          iflag, isr_pc, isr_millis, isr_fract, rd_pc, rd_bytes, norm,
          th_sample, th_kelvin, sam_idx, th_raw, th_ret, th_seen, conv,
          display, disp_call, rtc, width>>

(***************************************************************************)
(* Inputs.  The ADC codes are the environment's; a reading stands for the  *)
(* four Fahrenheit values the thermistors convert to after a sample.       *)
(***************************************************************************)
Rd(h, c, k, e) == [habitat |-> h, coolant |-> c, condenser |-> k, evaporator |-> e]
Readings ==
    { Rd(F(55, 0),  F(40, 0),  F(70, 0), F(38, 0)),   \* cold habitat, coolant in band
      Rd(F(57, 0),  F(50, 0),  F(90, 0), F(40, 0)),   \* both inside their bands
      Rd(F(58, 0),  F(58, 0),  F(90, 0), F(40, 0)),   \* warm habitat, coolant above target
      Rd(F(56, 50), F(52, 50), F(80, 0), F(47, 50)),  \* on the switch-on thresholds
      Rd(F(57, 50), F(37, 50), F(70, 0), F(30, 0)),   \* on the switch-off thresholds
      Rd(F(60, 0),  F(37, 0),  F(80, 1), F(31, 99)) } \* hot habitat, cold coolant,
                                                      \* fan and pump just above switch-on
Targets == {TARGET_TEMP, F(60, 0)}
NoRead == [ran |-> FALSE, seq |-> 0, temps |-> Rd(0, 0, 0, 0),
           heater_was |-> FALSE, compressor_was |-> FALSE]

(***************************************************************************)
(* millis.rs                                                               *)
(***************************************************************************)
\* TIMER0_OVF body: one read-modify-write of MILLIS and FRACT.
OvfStep_CarryAbove(c) ==
    LET millis == c.millis + MILLIS_INC
        fract == c.fract + FRACT_INC
    IN  IF fract > FRACT_MAX
        THEN [millis |-> millis + 1, fract |-> fract - FRACT_MAX]
        ELSE [millis |-> millis, fract |-> fract]
OvfStep(c) ==
    LET millis == c.millis + MILLIS_INC
        fract == c.fract + FRACT_INC
    IN  IF fract >= FRACT_MAX
        THEN [millis |-> millis + 1, fract |-> fract - FRACT_MAX]
        ELSE [millis |-> millis, fract |-> fract]

\* The interrupt handler; it runs inside interrupt::free, so it is atomic.
\* limit and lag bound the environment: the interrupt is taken only while
\* MILLIS < limit and the clock is less than lag ms ahead of next_sample.
Timer0Ovf(limit, lag) ==
    /\ MILLIS < limit
    /\ MILLIS - next_sample < lag
    /\ LET c == OvfStep([millis |-> MILLIS, fract |-> FRACT])
       IN  /\ MILLIS' = U32(c.millis)
           /\ FRACT' = c.fract
    /\ OVERFLOWS' = OVERFLOWS + 1
    /\ UNCHANGED <<pc, now, schedvars, beginvars, actuators, blink, last_page,
                   sensvars, fires, order, ctl_read>>
    /\ UNCHANGED auxvars

\* loop { let now = millis(); try_sample; try_update; try_display; try_blink }
LoopBody_DisplayFirst ==
    <<"millis", "try_display", "try_sample", "try_update", "try_blink">>
LoopBody_UpdateFirst ==
    <<"millis", "try_update", "try_sample", "try_display", "try_blink">>
LoopBody == <<"millis", "try_sample", "try_update", "try_display", "try_blink">>
IndexOf(seq, x) == CHOOSE i \in 1..Len(seq) : seq[i] = x
After(p) == LoopBody[(IndexOf(LoopBody, p) % Len(LoopBody)) + 1]

\* main loop: let now = millis();
Millis ==
    /\ pc = "millis"
    /\ now' = MILLIS
    /\ pc' = After("millis")
    /\ order' = <<>>
    /\ ctl_read' = NoRead
    /\ UNCHANGED <<clockvars, schedvars, beginvars, actuators, blink, last_page,
                   sensvars, fires>>
    /\ UNCHANGED auxvars


(***************************************************************************)
(* main.rs: the loop body and the scheduler                                *)
(***************************************************************************)
\* `if now < self.next_x { return; }`
Due_Strict(t, deadline) == t > deadline
Due_Always(t, deadline) == TRUE
Due(t, deadline) == ~(t < deadline)
\* `self.next_x += X_INTERVAL;`
Advance_FromNow(deadline, period) == now + period
Advance_SkipMissed(deadline, period) ==
    deadline + period * (Max2(now - deadline, 0) \div period + 1)
Advance(deadline, period) == U32(deadline + period)

Fire(slot) ==
    /\ fires' = [fires EXCEPT ![slot] = @ + 1]
    /\ order' = Append(order, slot)

\* Sensorium::sample: four Thermistor::sample calls with the same sens, then
\* the coefficient is halved while sens_steps > 0.
SensoriumSample_NoGuard ==
    /\ reading' \in Readings
    /\ sens' = sens \div 2
    /\ sens_steps' = sens_steps - 1
SensoriumSample ==
    /\ reading' \in Readings
    /\ IF sens_steps > 0
       THEN /\ sens' = sens \div 2
            /\ sens_steps' = sens_steps - 1
       ELSE UNCHANGED <<sens, sens_steps>>

TrySample ==
    /\ pc = "try_sample"
    /\ pc' = After("try_sample")
    /\ IF Due(now, next_sample)
       THEN /\ next_sample' = Advance(next_sample, SAMPLE_INTERVAL)
            /\ SensoriumSample
            /\ Fire("sample")
       ELSE UNCHANGED <<next_sample, sensvars, fires, order>>
    /\ UNCHANGED <<clockvars, now, next_update, next_display, next_blink,
                   beginvars, actuators, blink, last_page, ctl_read>>
    /\ UNCHANGED auxvars

(***************************************************************************)
(* main.rs: the control algorithm of try_update                            *)
(***************************************************************************)
\* normalize(value, min, max) = (value.clamp(min, max) - min) / (max - min)
normalize_NoClamp(value, min, max) == DutyScale(value - min, max - min)
normalize(value, min, max) == DutyScale(Clamp(value, min, max) - min, max - min)
\* PWMController::set_duty_x stores duty.clamp(0.0, 1.0)
SetDuty(duty) == Clamp(duty, 0, DutyScale(1, 1))

\* heater relay after the heater rule (TRUE is Active)
HeaterNext_NoBand(active, habitat_temp, target) ==
    IF active
    THEN ~(habitat_temp > target)
    ELSE habitat_temp < target
HeaterNext_Rederived(active, habitat_temp, target) ==
    habitat_temp < target - F(1, 0)
HeaterNext(active, habitat_temp, target) ==
    IF active
    THEN ~(habitat_temp > target)
    ELSE habitat_temp < target - F(1, 0)

\* compressor relay after the compressor rule
CompressorNext_NarrowBand(active, coolant_temp, target) ==
    IF active
    THEN ~(coolant_temp < target - F(5, 0))
    ELSE coolant_temp > target - F(5, 0)
CompressorNext_Rederived(active, coolant_temp, target) ==
    coolant_temp > target - F(5, 0)
CompressorNext(active, coolant_temp, target) ==
    IF active
    THEN ~(coolant_temp < target - F(20, 0))
    ELSE coolant_temp > target - F(5, 0)

\* condenser fan duty after the condenser fan rule
CondenserFanDuty_NoThreshold(condenser_temp) ==
    SetDuty(normalize(condenser_temp, F(75, 0), F(100, 0)))
CondenserFanDuty(condenser_temp) ==
    IF condenser_temp > F(80, 0)
    THEN SetDuty(normalize(condenser_temp, F(75, 0), F(100, 0)))
    ELSE SetDuty(0)

\* habitat fan duty after the habitat fan rule
HabitatFanDuty_IgnoresCoolant(current, ht_delta, coolant_temp, target) ==
    IF ht_delta > F(0, 5)
    THEN SetDuty(DutyScale(1, 1))
    ELSE IF ht_delta < 0 - F(0, 5)
         THEN SetDuty(0)
         ELSE current
HabitatFanDuty_Proportional(current, ht_delta, coolant_temp, target) ==
    IF ht_delta > F(0, 5) /\ coolant_temp < target
    THEN SetDuty(normalize(ht_delta, 0, F(5, 0)))
    ELSE IF ht_delta < 0 - F(0, 5)
         THEN SetDuty(0)
         ELSE current
HabitatFanDuty(current, ht_delta, coolant_temp, target) ==
    IF ht_delta > F(0, 5) /\ coolant_temp < target
    THEN SetDuty(DutyScale(1, 1))
    ELSE IF ht_delta < 0 - F(0, 5)
         THEN SetDuty(0)
         ELSE current

\* coolant pump duty after the coolant pump rule
CoolantPumpDuty_NoThreshold(ce_delta) ==
    SetDuty(normalize(ce_delta, 0 - F(5, 0), F(15, 0)))
CoolantPumpDuty_RawRatio(ce_delta) ==
    IF ce_delta > F(5, 0)
    THEN DutyScale(ce_delta + F(5, 0), F(20, 0))
    ELSE 0
CoolantPumpDuty(ce_delta) ==
    IF ce_delta > F(5, 0)
    THEN SetDuty(normalize(ce_delta, 0 - F(5, 0), F(15, 0)))
    ELSE SetDuty(0)

\* `if now < GRACE_PERIOD { return; }  if let Some(target) = self.target_temp`
ControlEnabled_NoTarget(t, target) == ~(t < GRACE_PERIOD)
ControlEnabled(t, target) == ~(t < GRACE_PERIOD) /\ target.some

Control ==
    LET target == target_temp.val
        habitat_temp == reading.habitat
        coolant_temp == reading.coolant
        condenser_temp == reading.condenser
        evaporator_temp == reading.evaporator
        ht_delta == habitat_temp - target
        ce_delta == coolant_temp - evaporator_temp
    IN  /\ heater' = HeaterNext(heater, habitat_temp, target)
        /\ compressor' = CompressorNext(compressor, coolant_temp, target)
        /\ duty_a' = CondenserFanDuty(condenser_temp)
        /\ duty_b' = HabitatFanDuty(duty_b, ht_delta, coolant_temp, target)
        /\ duty_c' = CoolantPumpDuty(ce_delta)
        /\ ctl_read' = [ran |-> TRUE, seq |-> fires["sample"], temps |-> reading,
                        heater_was |-> heater, compressor_was |-> compressor]

TryUpdate_Deferred ==
    /\ pc = "try_update"
    /\ pc' = After("try_update")
    /\ IF Due(now, next_update) /\ ControlEnabled(now, target_temp)
       THEN /\ next_update' = Advance(next_update, UPDATE_INTERVAL)
            /\ Fire("update")
            /\ Control
       ELSE UNCHANGED <<next_update, fires, order, actuators, ctl_read>>
    /\ UNCHANGED <<clockvars, now, next_sample, next_display, next_blink,
                   beginvars, blink, last_page, sensvars>>
    /\ UNCHANGED auxvars
TryUpdate ==
    /\ pc = "try_update"
    /\ pc' = After("try_update")
    /\ IF Due(now, next_update)
       THEN /\ next_update' = Advance(next_update, UPDATE_INTERVAL)
            /\ Fire("update")
            /\ IF ControlEnabled(now, target_temp)
               THEN Control
               ELSE UNCHANGED <<actuators, ctl_read>>
       ELSE UNCHANGED <<next_update, fires, order, actuators, ctl_read>>
    /\ UNCHANGED <<clockvars, now, next_sample, next_display, next_blink,
                   beginvars, blink, last_page, sensvars>>
    /\ UNCHANGED auxvars

\* try_display: print_temps reads the four temperatures and leaves Page::Temps.
TryDisplay ==
    /\ pc = "try_display"
    /\ pc' = After("try_display")
    /\ IF Due(now, next_display)
       THEN /\ next_display' = Advance(next_display, DISPLAY_INTERVAL)
            /\ last_page' = "Temps"
            /\ Fire("display")
       ELSE UNCHANGED <<next_display, last_page, fires, order>>
    /\ UNCHANGED <<clockvars, now, next_sample, next_update, next_blink,
                   beginvars, actuators, blink, sensvars, ctl_read>>
    /\ UNCHANGED auxvars

TryBlink ==
    /\ pc = "try_blink"
    /\ pc' = After("try_blink")
    /\ IF Due(now, next_blink)
       THEN /\ next_blink' = Advance(next_blink, BLINK_INTERVAL)
            /\ blink' = ~blink
            /\ Fire("blink")
       ELSE UNCHANGED <<next_blink, blink, fires, order>>
    /\ UNCHANGED <<clockvars, now, next_sample, next_update, next_display,
                   beginvars, actuators, last_page, sensvars, ctl_read>>
    /\ UNCHANGED auxvars

\* `if self.target_temp.is_some() { return; }`
AlreadyBegun_Never(current) == FALSE
AlreadyBegun(current) == current.some

Begin_Rearms(target) ==
    /\ pc = "millis"
    /\ IF AlreadyBegun(target_temp)
       THEN /\ rebegin' = Some(target)
            /\ UNCHANGED <<target_temp, master_120vac, begin_at, schedvars>>
       ELSE /\ target_temp' = Some(target)
            /\ master_120vac' = TRUE
            /\ begin_at' = Some(MILLIS)
            /\ next_update' = now + GRACE_PERIOD
            /\ UNCHANGED <<rebegin, next_sample, next_display, next_blink>>
    /\ UNCHANGED <<clockvars, pc, now, actuators, blink, last_page,
                   sensvars, fires, order, ctl_read>>
    /\ UNCHANGED auxvars
\* ClimateController::begin, called between two loop passes (main calls it
\* once, before the loop).
Begin(target) ==
    /\ pc = "millis"
    /\ IF AlreadyBegun(target_temp)
       THEN /\ rebegin' = Some(target)
            /\ UNCHANGED <<target_temp, master_120vac, begin_at>>
       ELSE /\ target_temp' = Some(target)
            /\ master_120vac' = TRUE
            /\ begin_at' = Some(MILLIS)
            /\ UNCHANGED rebegin
    /\ UNCHANGED <<clockvars, pc, now, schedvars, actuators, blink, last_page,
                   sensvars, fires, order, ctl_read>>
    /\ UNCHANGED auxvars

(***************************************************************************)
(* Specifications                                                          *)
(***************************************************************************)
\* The interrupt machinery between two calls of millis(), no interrupt being
\* served: interrupts are enabled (main enables them before the loop).
InitIsr ==
    /\ iflag = TRUE
    /\ isr_pc = "idle" /\ isr_millis = 0 /\ isr_fract = 0
    /\ rd_pc = "call" /\ rd_bytes = <<>>

\* No call of normalize under way.
NoCall == [value |-> 0, other |-> 0, min |-> 0, max |-> 0,
           done |-> FALSE, result |-> 0, other_result |-> 0]

ChannelSet == {"coolant", "habitat", "condenser", "evaporator"}
\* No conversion under way.
NoConv == [channel |-> "coolant", sample |-> 0, done |-> FALSE, kelvin |-> 0,
           celsius |-> 0]
\* Thermistor::new for the four channels: sample 0.0, kelvin None.
InitThermistors ==
    /\ th_sample = [ch \in ChannelSet |-> 0]
    /\ th_kelvin = [ch \in ChannelSet |-> None]
    /\ sam_idx = 0
    /\ th_raw = [ch \in ChannelSet |-> 0]
    /\ th_ret = [ch \in ChannelSet |-> [n |-> 0, val |-> 0]]
    /\ th_seen = [ch \in ChannelSet |-> [any |-> FALSE, min |-> 0, max |-> 0]]

\* A page: its variant and the data it carries.
Page(variant, payload) == [variant |-> variant, payload |-> payload]
Blank == Page("Blank", 0)
\* Display::new: the Blank page, no clear pending.
InitDisplay ==
    /\ display = [page |-> Blank, needs_clear |-> FALSE]
    /\ disp_call = [op |-> "new", arg |-> Blank,
                    was |-> [page |-> Blank, needs_clear |-> FALSE],
                    cleared |-> FALSE, titles |-> FALSE]
\* No call into rtc.rs under way.
NoRtcCall == [fn |-> "none", arg |-> 0, done |-> FALSE, ok |-> FALSE,
              panic |-> FALSE, bcd |-> 0, bin |-> 0, month |-> "",
              leap |-> FALSE]
InitLib == InitDisplay /\ rtc = NoRtcCall

\* State after init_millis and ClimateController::new.
InitController ==
    /\ OVERFLOWS = 0 /\ MILLIS = 0 /\ FRACT = 0
    /\ pc = "millis" /\ now = 0
    /\ next_sample = 0 /\ next_update = 0 /\ next_display = 0 /\ next_blink = 0
    /\ target_temp = None
    /\ compressor = FALSE /\ heater = FALSE /\ master_120vac = FALSE
    /\ duty_a = 0 /\ duty_b = 0 /\ duty_c = 0
    /\ blink = FALSE /\ last_page = "None"
    /\ sens = 1024 /\ sens_steps = 10
    /\ reading = Rd(0, 0, 0, 0)
    /\ fires = [s \in Slots |-> 0]
    /\ order = <<>>
    /\ ctl_read = NoRead
    /\ begin_at = None
    /\ rebegin = None

Init ==
    /\ InitController /\ InitIsr /\ norm = NoCall
    /\ InitThermistors /\ conv = NoConv /\ InitLib
    /\ width = U32Bits

Step(limit, lag) ==
    \/ Timer0Ovf(limit, lag)
    \/ Millis
    \/ TrySample
    \/ TryUpdate
    \/ TryDisplay
    \/ TryBlink
    \/ \E target \in Targets : Begin(target)

Next == Step(MaxMillis, MaxMillis)

Spec == Init /\ [][Next]_vars


\* The clock after n runs of the overflow handler from 0: every run adds
\* MILLIS_INC ms and FRACT_INC / FRACT_MAX ms, and FRACT carries into MILLIS
\* at FRACT_MAX, so MILLIS * FRACT_MAX + FRACT grows by the same amount on
\* every run (ClockLaw below is this relation, an invariant of Spec).
ClockAfter(n) ==
    LET total == n * (MILLIS_INC * FRACT_MAX + FRACT_INC)
    IN  [millis |-> total \div FRACT_MAX, fract |-> total % FRACT_MAX]
ClockLaw == [millis |-> MILLIS, fract |-> FRACT] = ClockAfter(OVERFLOWS)

\* The number of overflows after which MILLIS first reaches m.
OverflowsFor(m) ==
    (m * FRACT_MAX + MILLIS_INC * FRACT_MAX + FRACT_INC - 1)
        \div (MILLIS_INC * FRACT_MAX + FRACT_INC)

\* A state of the running program before the grace period ends: the clock
\* has just reached m (10 < m < GRACE_PERIOD) and the loop has kept up with
\* the clock (its last pass read the current MILLIS, so every slot has run
\* now \div period + 1 times); begin(TARGET_TEMP) was called at boot or has
\* not been called; the filter coefficient has reached 1/1024 and no
\* actuator has been commanded, the clock being below GRACE_PERIOD.
WarmAt(m) ==
    LET n == OverflowsFor(m)
        c == ClockAfter(n)
        ran(period) == c.millis \div period + 1
    IN  /\ OVERFLOWS = n /\ MILLIS = c.millis /\ FRACT = c.fract
        /\ pc = "millis" /\ now = c.millis
        /\ next_sample = ran(SAMPLE_INTERVAL) * SAMPLE_INTERVAL
        /\ next_update = ran(UPDATE_INTERVAL) * UPDATE_INTERVAL
        /\ next_display = ran(DISPLAY_INTERVAL) * DISPLAY_INTERVAL
        /\ next_blink = ran(BLINK_INTERVAL) * BLINK_INTERVAL
        /\ fires = [s \in Slots |->
                      CASE s = "sample" -> ran(SAMPLE_INTERVAL)
                        [] s = "update" -> ran(UPDATE_INTERVAL)
                        [] s = "display" -> ran(DISPLAY_INTERVAL)
                        [] s = "blink" -> ran(BLINK_INTERVAL)]
        /\ \E begun \in BOOLEAN :
              /\ target_temp = IF begun THEN Some(TARGET_TEMP) ELSE None
              /\ master_120vac = begun
              /\ begin_at = IF begun THEN Some(0) ELSE None
        /\ rebegin = None
        /\ compressor = FALSE /\ heater = FALSE
        /\ duty_a = 0 /\ duty_b = 0 /\ duty_c = 0
        /\ blink = (ran(BLINK_INTERVAL) % 2 = 1) /\ last_page = "Temps"
        /\ sens = 1 /\ sens_steps = 0
        /\ reading \in Readings
        /\ order = <<>>
        /\ ctl_read = NoRead
        /\ InitIsr /\ norm = NoCall
        /\ InitThermistors /\ conv = NoConv /\ InitLib

\* Shortly before the grace period ends.
InitWarm == WarmAt(GRACE_PERIOD - WarmLead) /\ width = U32Bits

NextWarm == Step(GRACE_PERIOD + WarmRun, MaxLag)

SpecWarm == InitWarm /\ [][NextWarm]_vars

(***************************************************************************)
(* A slow pass of the loop: the program is held in print_temps (the LCD    *)
(* writes of try_display) while the timer keeps interrupting.              *)
(***************************************************************************)
\* SpecStall: the clock value the stall ends at is GRACE_PERIOD plus one of
\* 0..StallRun.
StallRun == 3
\* SpecStall: the loop is followed until this many aggregate samples.
StallSamples == 12

\* TIMER0_OVF run again and again during one try_display, until the clock
\* reaches a value from GRACE_PERIOD on: as many Timer0Ovf steps in a row.
Stall ==
    /\ pc = "try_display"
    /\ MILLIS < GRACE_PERIOD
    /\ \E extra \in 0..StallRun :
          LET n == OverflowsFor(GRACE_PERIOD + extra)
              c == ClockAfter(n)
          IN  /\ OVERFLOWS' = n
              /\ MILLIS' = c.millis
              /\ FRACT' = c.fract
    /\ UNCHANGED <<pc, now, schedvars, beginvars, actuators, blink, last_page,
                   sensvars, fires, order, ctl_read>>
    /\ UNCHANGED auxvars

NextStall ==
    \/ Timer0Ovf(MaxMillis, MaxLag)
    \/ Stall
    \/ (fires["sample"] < StallSamples /\ Millis)
    \/ TrySample
    \/ TryUpdate
    \/ TryDisplay
    \/ TryBlink
    \/ \E target \in Targets : Begin(target)

SpecStall == Init /\ [][NextStall]_vars

(***************************************************************************)
(* The scheduler across the wraparound of the millisecond counter, with    *)
(* words of WrapBits bits in place of 32: `next_x += X_INTERVAL` and the   *)
(* additions of TIMER0_OVF wrap, `now < self.next_x` compares the wrapped  *)
(* values.  The loop makes one pass per timer interrupt.                   *)
(***************************************************************************)
\* The narrowest word that holds BLINK_INTERVAL and GRACE_PERIOD.
WrapBits == 11
\* SpecWrap: its first state is this many milliseconds before 2^WrapBits.
WrapLead == 50
\* SpecWrap: milliseconds explored past 2^WrapBits.
WrapRun == 3

\* Milliseconds since boot, not reduced to the word: what MILLIS would be
\* in a word that never wraps.
Elapsed == ClockAfter(OVERFLOWS).millis

\* The running program 2^WrapBits - WrapLead ms after boot (see WarmAt): no
\* deadline has wrapped yet.
InitWrap == WarmAt(2 ^ WrapBits - WrapLead) /\ width = WrapBits

NextWrap ==
    \/ (/\ now = MILLIS
        /\ Elapsed < 2 ^ WrapBits + WrapRun
        /\ Timer0Ovf(2 ^ WrapBits, 2 ^ WrapBits))
    \/ (now # MILLIS /\ Millis)
    \/ TrySample
    \/ TryUpdate
    \/ TryDisplay
    \/ TryBlink
    \/ \E target \in Targets : Begin(target)

SpecWrap == InitWrap /\ [][NextWrap]_vars

(***************************************************************************)
(* Catch-up with the clock standing still: from boot, the clock jumps once *)
(* (a pass held up while the timer keeps interrupting, as in SpecStall)    *)
(* and then keeps its value while the loop goes on.  The loop is weakly    *)
(* fair: main never leaves it.                                             *)
(***************************************************************************)
\* SpecCatchUp: the clock jumps from 0 to a value in 1..CatchMax.
CatchMax == 25

\* TIMER0_OVF run again and again at some point of the loop, until the
\* clock reads m: as many Timer0Ovf steps in a row.
Hold ==
    /\ MILLIS = 0
    /\ \E m \in 1..CatchMax :
          LET n == OverflowsFor(m)
              c == ClockAfter(n)
          IN  /\ OVERFLOWS' = n
              /\ MILLIS' = c.millis
              /\ FRACT' = c.fract
    /\ UNCHANGED <<pc, now, schedvars, beginvars, actuators, blink, last_page,
                   sensvars, fires, order, ctl_read>>
    /\ UNCHANGED auxvars

\* One step of main's loop.
LoopStep == Millis \/ TrySample \/ TryUpdate \/ TryDisplay \/ TryBlink

NextCatchUp ==
    \/ Hold
    \/ Millis
    \/ TrySample
    \/ TryUpdate
    \/ TryDisplay
    \/ TryBlink
    \/ \E target \in Targets : Begin(target)

SpecCatchUp == Init /\ [][NextCatchUp]_vars /\ WF_vars(LoopStep)

(***************************************************************************)
(* The running controller with fairness: the timer keeps overflowing (it   *)
(* is free-running hardware and its interrupt is taken whenever interrupts *)
(* are enabled) and main never leaves its loop.  begin is not fair: it may *)
(* never be called again.  The clock runs from LiveLead before the end of  *)
(* the grace period to LiveRun past it.                                    *)
(***************************************************************************)
\* SpecLive: the warm start is LiveLead ms before GRACE_PERIOD.
LiveLead == 3
\* SpecLive: the clock stops LiveRun ms after GRACE_PERIOD.
LiveRun == 3
LiveEnd == GRACE_PERIOD + LiveRun

InitLive == WarmAt(GRACE_PERIOD - LiveLead) /\ width = U32Bits

\* As in SpecWarm, the clock runs at most MaxLag ms ahead of the sampling
\* deadline.
NextLive == Step(LiveEnd, MaxLag)

SpecLive ==
    /\ InitLive
    /\ [][NextLive]_vars
    /\ WF_vars(Timer0Ovf(LiveEnd, MaxLag))
    /\ WF_vars(LoopStep)

(***************************************************************************)
(* normalize as a function of its arguments                                *)
(***************************************************************************)
\* Arguments, in hundredths: multiples of 0.75 around 0.
NormSpan == 3
NormGrid == {k * 75 : k \in (0 - NormSpan)..NormSpan}
\* Every call this specification starts from: two values for the same
\* range min < max.
NormCalls ==
    {c \in [value : NormGrid, other : NormGrid, min : NormGrid, max : NormGrid,
            done : {FALSE}, result : {0}, other_result : {0}] : c.min < c.max}

\* The call returns: normalize is applied to both values.
NormalizeCall ==
    /\ ~norm.done
    /\ norm' = [norm EXCEPT !.done = TRUE,
                            !.result = normalize(norm.value, norm.min, norm.max),
                            !.other_result = normalize(norm.other, norm.min, norm.max)]
    /\ UNCHANGED <<clockvars, pc, now, schedvars, beginvars, actuators, blink,
                   last_page, sensvars, fires, order, ctl_read, isrvars, thvars, libvars>>

InitNormalize ==
    /\ InitController /\ InitIsr /\ norm \in NormCalls
    /\ InitThermistors /\ conv = NoConv /\ InitLib
    /\ width = U32Bits
NextNormalize == NormalizeCall
SpecNormalize == InitNormalize /\ [][NextNormalize]_vars

(***************************************************************************)
(* millis.rs step by step: the handler as a read-modify-write of the       *)
(* cells, millis() as byte loads of the u32 MILLIS (the AVR is an 8-bit    *)
(* core) inside interrupt::free.  One core: while the handler runs the     *)
(* main program does not, and the hardware takes the interrupt only while  *)
(* the I bit is set, clears the bit on entry and sets it again on return.  *)
(***************************************************************************)
\* SpecClock: no interrupt is taken once MILLIS reaches this value.
ClockMax == 260
\* SpecClock: its second initial state is this many milliseconds before
\* ClockMax (the first is the boot state).
ClockLead == 15

\* Everything the clock code does not touch.
loopvars == <<pc, schedvars, beginvars, actuators, blink, last_page, sensvars,
              fires, order, ctl_read, norm, thvars, libvars>>

\* The I bit inside the closure of avr_device::interrupt::free.
InterruptFree_NoMask(enabled) == enabled
InterruptFree(enabled) == FALSE

\* Byte i (0 is the least significant) of a u32, and the u32 of four bytes.
Byte(value, i) == (value \div (256 ^ i)) % 256
FromBytes(bytes) ==
    bytes[1] + 256 * bytes[2] + 65536 * bytes[3] + 16777216 * bytes[4]

\* The hardware takes the TIMER0_OVF interrupt.
IsrEnter ==
    /\ iflag /\ isr_pc = "idle"
    /\ MILLIS < ClockMax
    /\ iflag' = FALSE
    /\ isr_pc' = "load"
    /\ UNCHANGED <<clockvars, now, isr_millis, isr_fract, rd_pc, rd_bytes, loopvars>>

\* let mut millis = millis_cell.get(); let mut fract = fract_cell.get();
IsrLoad ==
    /\ isr_pc = "load"
    /\ isr_millis' = MILLIS
    /\ isr_fract' = FRACT
    /\ isr_pc' = "add"
    /\ UNCHANGED <<clockvars, now, iflag, rd_pc, rd_bytes, loopvars>>

\* millis += MILLIS_INC; fract += FRACT_INC; if fract >= FRACT_MAX { .. }
IsrAdd ==
    /\ isr_pc = "add"
    /\ LET c == OvfStep([millis |-> isr_millis, fract |-> isr_fract])
       IN  /\ isr_millis' = c.millis
           /\ isr_fract' = c.fract
    /\ isr_pc' = "set_fract"
    /\ UNCHANGED <<clockvars, now, iflag, rd_pc, rd_bytes, loopvars>>

\* fract_cell.set(fract);
IsrSetFract ==
    /\ isr_pc = "set_fract"
    /\ FRACT' = isr_fract
    /\ isr_pc' = "set_millis"
    /\ UNCHANGED <<OVERFLOWS, MILLIS, now, iflag, isr_millis, isr_fract,
                   rd_pc, rd_bytes, loopvars>>

\* millis_cell.set(millis);
IsrSetMillis ==
    /\ isr_pc = "set_millis"
    /\ MILLIS' = isr_millis
    /\ isr_pc' = "count"
    /\ UNCHANGED <<OVERFLOWS, FRACT, now, iflag, isr_millis, isr_fract,
                   rd_pc, rd_bytes, loopvars>>

\* OVERFLOWS.borrow(cs).update(|x| x + 1); and the return from the handler.
IsrCount ==
    /\ isr_pc = "count"
    /\ OVERFLOWS' = OVERFLOWS + 1
    /\ isr_pc' = "idle"
    /\ isr_millis' = 0 /\ isr_fract' = 0
    /\ iflag' = TRUE
    /\ UNCHANGED <<MILLIS, FRACT, now, rd_pc, rd_bytes, loopvars>>

\* millis(): interrupt::free is entered.
MillisEnter ==
    /\ isr_pc = "idle"
    /\ rd_pc = "call"
    /\ iflag' = InterruptFree(iflag)
    /\ rd_pc' = "read"
    /\ rd_bytes' = <<>>
    /\ UNCHANGED <<clockvars, now, isr_pc, isr_millis, isr_fract, loopvars>>

\* millis(): MILLIS.borrow(cs).get(), one byte load.
MillisLoadByte ==
    /\ isr_pc = "idle"
    /\ rd_pc = "read"
    /\ Len(rd_bytes) < 4
    /\ rd_bytes' = Append(rd_bytes, Byte(MILLIS, Len(rd_bytes)))
    /\ UNCHANGED <<clockvars, now, iflag, isr_pc, isr_millis, isr_fract,
                   rd_pc, loopvars>>

\* millis(): interrupt::free restores the I bit (set, in the main program)
\* and the value is returned: let now = millis();
MillisReturn ==
    /\ isr_pc = "idle"
    /\ rd_pc = "read"
    /\ Len(rd_bytes) = 4
    /\ now' = FromBytes(rd_bytes)
    /\ iflag' = TRUE
    /\ rd_pc' = "call"
    /\ rd_bytes' = <<>>
    /\ UNCHANGED <<clockvars, isr_pc, isr_millis, isr_fract, loopvars>>

NextClock ==
    \/ IsrEnter
    \/ IsrLoad
    \/ IsrAdd
    \/ IsrSetFract
    \/ IsrSetMillis
    \/ IsrCount
    \/ MillisEnter
    \/ MillisLoadByte
    \/ MillisReturn

\* From boot, and from the running program shortly before the second byte
\* of MILLIS first changes.
InitClock == Init \/ (WarmAt(ClockMax - ClockLead) /\ width = U32Bits)

SpecClock == InitClock /\ [][NextClock]_vars


(***************************************************************************)
(* ntc.rs: the thermistor.  The filtered sample is kept in 1/1024 of an    *)
(* ADC code, ratios and logarithms in millionths, temperatures in          *)
(* millionths of a kelvin.                                                 *)
(***************************************************************************)
\* [q, r] with a * b = q * c + r and 0 <= r < c, for 0 <= a < c: the product
\* is formed by doubling, so no intermediate value leaves 32 bits.
RECURSIVE MulMod(_, _, _)
MulMod(a, b, c) ==
    IF b = 0
    THEN [q |-> 0, r |-> 0]
    ELSE LET half == MulMod(a, b \div 2, c)
             rest == 2 * half.r + a * (b % 2)
         IN  [q |-> 2 * half.q + rest \div c, r |-> rest % c]
\* floor(a * b / c) for a, b >= 0 and c > 0
MulDiv(a, b, c) == (a \div c) * b + MulMod(a % c, b, c).q

Micro == 1000000
\* libm::logf of x / 10^6, in millionths: x is brought into [1, 2) by
\* doublings and halvings, then ln x = 2 atanh((x - 1) / (x + 1)).
Ln2 == 693147
RECURSIVE Halvings(_)
Halvings(x) ==
    IF x >= 2 * Micro THEN 1 + Halvings(x \div 2)
    ELSE IF x < Micro THEN Halvings(2 * x) - 1
    ELSE 0
RECURSIVE Reduced(_)
Reduced(x) ==
    IF x >= 2 * Micro THEN Reduced(x \div 2)
    ELSE IF x < Micro THEN Reduced(2 * x)
    ELSE x
Atanh(z) ==
    LET z2 == MulDiv(z, z, Micro)
        z3 == MulDiv(z, z2, Micro)
        z5 == MulDiv(z3, z2, Micro)
        z7 == MulDiv(z5, z2, Micro)
        z9 == MulDiv(z7, z2, Micro)
        z11 == MulDiv(z9, z2, Micro)
    IN  z + z3 \div 3 + z5 \div 5 + z7 \div 7 + z9 \div 9 + z11 \div 11
Logf(x) ==
    LET m == Reduced(x)
    IN  Halvings(x) * Ln2 + 2 * Atanh(MulDiv(m - Micro, Micro, m + Micro))

\* Sensorium::new: the four thermistors, in the order sample() reads them.
Channels == <<"coolant", "habitat", "condenser", "evaporator">>
Thermistors ==
    [coolant    |-> [r0 |-> 10000,  b |-> 3380, r_bias |-> 9820],
     habitat    |-> [r0 |-> 20000,  b |-> 3950, r_bias |-> 21440],
     condenser  |-> [r0 |-> 100000, b |-> 3950, r_bias |-> 100500],
     evaporator |-> [r0 |-> 10000,  b |-> 3380, r_bias |-> 9860]]

\* An ADC code as a sample value, and the largest code.
FullScale == 1023
Code(raw) == raw * 1024

\* ohms / r0 for a sample strictly between 0 and 1023, in millionths.
Resistance_DividerRatio(t, sample) ==
    MulDiv(Code(FullScale) - sample, Micro, sample)
Resistance(t, sample) ==
    MulDiv(MulDiv(Code(FullScale) - sample, Micro, sample), t.r_bias, t.r0)
\* Thermistor::kelvin, the computation: f32 gives 0 for sample = 0 (ohms is
\* infinite) and for sample = 1023 (ohms is 0, its logarithm -infinity).
KelvinOf(t, sample) ==
    IF sample = 0 \/ sample = Code(FullScale)
    THEN 0
    ELSE LET inverse == Logf(Resistance(t, sample))
                            + MulDiv(t.b, 100 * Micro, 29815)
         IN  MulDiv(t.b * 100000, 10 * Micro, inverse)
\* Thermistor::celsius and ::fahrenheit of a kelvin value
CelsiusOf(kelvin) == kelvin - 273150000
FahrenheitOf(kelvin) ==
    LET celsius == CelsiusOf(kelvin)
    IN  (celsius \div 5) * 9 + ((celsius % 5) * 9) \div 5 + 32 * Micro

\* SpecFilter: aggregate sample() calls explored.
FilterCalls == 4
\* The ADC codes the four pins deliver during one aggregate sample().
Raw(c, h, k, e) == [coolant |-> c, habitat |-> h, condenser |-> k, evaporator |-> e]
RawScenes ==
    {Raw(519, 529, 525, 520), Raw(1023, 800, 400, 700), Raw(0, 1023, 1023, 0)}

\* self.sample = self.sample * (1.0 - sens) + val * sens;  (sens in 1/1024)
Filter_Swapped(sample, val, s) == (sample * s + Code(val) * (1024 - s)) \div 1024
Filter_Accumulate(sample, val, s) == sample + (Code(val) * s) \div 1024
Filter(sample, val, s) == (sample * (1024 - s) + Code(val) * s) \div 1024
\* self.kelvin.set(None);
Invalidate_Keep(cache) == cache
Invalidate(cache) == None
\* Thermistor temperatures as `reading` keeps them: hundredths of a degree F.
Hundredths(micro) == (micro + 5000) \div 10000
ReadingOf(samples) ==
    LET f(ch) == Hundredths(FahrenheitOf(KelvinOf(Thermistors[ch], samples[ch])))
    IN  Rd(f("habitat"), f("coolant"), f("condenser"), f("evaporator"))

\* Everything Sensorium and the thermistors do not touch.
ctlvars == <<clockvars, pc, now, schedvars, beginvars, actuators, blink,
             last_page, order, ctl_read, isrvars, norm, conv, libvars>>

\* Sensorium::sample is entered.
SampleBegin ==
    /\ sam_idx = 0
    /\ fires["sample"] < FilterCalls
    /\ sam_idx' = 1
    /\ th_raw' \in RawScenes
    /\ UNCHANGED <<th_sample, th_kelvin, th_ret, th_seen, sensvars, fires, ctlvars>>

\* self.<channel>_temp.sample(&mut self.adc, self.sens);
ThermistorSample ==
    /\ sam_idx \in 1..4
    /\ LET ch == Channels[sam_idx]
           val == th_raw[ch]
       IN  /\ th_sample' = [th_sample EXCEPT ![ch] = Filter(@, val, sens)]
           /\ th_kelvin' = [th_kelvin EXCEPT ![ch] = Invalidate(@)]
           /\ th_ret' = [th_ret EXCEPT ![ch] = [n |-> 0, val |-> 0]]
           /\ th_seen' = [th_seen EXCEPT ![ch] =
                            IF @.any
                            THEN [any |-> TRUE, min |-> Min2(@.min, val),
                                  max |-> Max2(@.max, val)]
                            ELSE [any |-> TRUE, min |-> val, max |-> val]]
    /\ sam_idx' = sam_idx + 1
    /\ UNCHANGED <<th_raw, sensvars, fires, ctlvars>>

\* if self.sens_steps > 0 { self.sens *= 0.5; self.sens_steps -= 1; }
\* and the return.
SampleEnd ==
    /\ sam_idx = 5
    /\ IF sens_steps > 0
       THEN /\ sens' = sens \div 2
            /\ sens_steps' = sens_steps - 1
       ELSE UNCHANGED <<sens, sens_steps>>
    /\ reading' = ReadingOf(th_sample)
    /\ fires' = [fires EXCEPT !["sample"] = @ + 1]
    /\ sam_idx' = 0
    /\ UNCHANGED <<th_sample, th_kelvin, th_raw, th_ret, th_seen, ctlvars>>

\* Thermistor::kelvin, called between two aggregate samples.
KelvinCall(ch) ==
    /\ sam_idx = 0
    /\ LET kelvin == IF th_kelvin[ch].some
                     THEN th_kelvin[ch].val
                     ELSE KelvinOf(Thermistors[ch], th_sample[ch])
       IN  /\ th_kelvin' = [th_kelvin EXCEPT ![ch] = Some(kelvin)]
           /\ th_ret' = [th_ret EXCEPT ![ch] = [n |-> Min2(@.n + 1, 2), val |-> kelvin]]
    /\ UNCHANGED <<th_sample, th_raw, th_seen, sam_idx, sensvars, fires, ctlvars>>

NextFilter ==
    \/ SampleBegin
    \/ ThermistorSample
    \/ SampleEnd
    \/ \E ch \in ChannelSet : KelvinCall(ch)

SpecFilter == Init /\ [][NextFilter]_vars

(***************************************************************************)
(* Thermistor::kelvin and ::celsius as functions of the filtered sample,   *)
(* around the sample at which the thermistor's resistance is r0.           *)
(***************************************************************************)
\* SpecConvert: samples up to this far (in 1/1024 of a code) on either side
\* of the calibration sample are converted.
ConvSpan == 15
\* The filtered sample of a divider whose thermistor is at r0:
\* 1023 * r_bias / (r0 + r_bias).
CalSample(t) == MulDiv(Code(FullScale), t.r_bias, t.r0 + t.r_bias)
ConvCalls ==
    {[NoConv EXCEPT !.channel = ch, !.sample = CalSample(Thermistors[ch]) + d] :
        ch \in ChannelSet, d \in (0 - ConvSpan)..ConvSpan}

\* kelvin() and celsius() of a thermistor holding conv.sample
Convert ==
    /\ ~conv.done
    /\ LET kelvin == KelvinOf(Thermistors[conv.channel], conv.sample)
       IN  conv' = [conv EXCEPT !.done = TRUE, !.kelvin = kelvin,
                                !.celsius = CelsiusOf(kelvin)]
    /\ UNCHANGED <<clockvars, pc, now, schedvars, beginvars, actuators, blink,
                   last_page, sensvars, fires, order, ctl_read, isrvars, norm,
                   th_sample, th_kelvin, sam_idx, th_raw, th_ret, th_seen, libvars>>

InitConvert ==
    /\ InitController /\ InitIsr /\ norm = NoCall
    /\ InitThermistors /\ conv \in ConvCalls /\ InitLib
    /\ width = U32Bits
NextConvert == Convert
SpecConvert == InitConvert /\ [][NextConvert]_vars

(***************************************************************************)
(* display.rs: the page held by the Display and the pending clear.  The    *)
(* LCD bus traffic is left out; a refresh is recorded by whether it        *)
(* cleared the screen and whether it drew the row titles.                  *)
(***************************************************************************)
\* Number of distinct payloads of a data-carrying page.
PagePayloads == 3
\* The pages set_page is called with: each variant, Temps with one of
\* 1..PagePayloads for its four temperatures, Time with 0 for Err(msg) or
\* one of 1..PagePayloads for Ok(time).
Pages ==
    {Blank}
        \cup {Page("Temps", k) : k \in 1..PagePayloads}
        \cup {Page("Time", k) : k \in 0..PagePayloads}

\* core::mem::discriminant(&page)
discriminant_WithPayload(page) == page
discriminant(page) == page.variant

\* Everything the Display does not touch.
nodisplay == <<clockvars, pc, now, schedvars, beginvars, actuators, blink,
               last_page, sensvars, fires, order, ctl_read, isrvars, norm,
               thvars, rtc, width>>

\* Display::set_page(page)
SetPage(page) ==
    /\ display' = [page |-> page,
                   needs_clear |-> IF discriminant(page) # discriminant(display.page)
                                   THEN TRUE
                                   ELSE display.needs_clear]
    /\ disp_call' = [op |-> "set_page", arg |-> page, was |-> display,
                     cleared |-> FALSE, titles |-> FALSE]
    /\ UNCHANGED nodisplay

\* Display::refresh()
Refresh ==
    /\ display' = [display EXCEPT !.needs_clear = FALSE]
    /\ disp_call' = [op |-> "refresh", arg |-> display.page, was |-> display,
                     cleared |-> display.needs_clear,
                     titles |-> /\ display.page.variant = "Temps"
                                /\ display.needs_clear]
    /\ UNCHANGED nodisplay

NextDisplay ==
    \/ \E page \in Pages : SetPage(page)
    \/ Refresh
SpecDisplay == Init /\ [][NextDisplay]_vars

(***************************************************************************)
(* rtc.rs: the BCD fields of the real-time clock.  A byte is a number in   *)
(* 0..255; the masks and shifts of the source are computed bit by bit.     *)
(* Hexadecimal literals of the source are written in decimal, the source   *)
(* form beside them.                                                       *)
(***************************************************************************)
U8 == 0..255
\* SpecRtc: Month::from_bin is called with 0..MonthMax.
MonthMax == 13

\* a & b on bytes
RECURSIVE BitAnd(_, _)
BitAnd(a, b) ==
    IF a = 0 \/ b = 0
    THEN 0
    ELSE (a % 2) * (b % 2) + 2 * BitAnd(a \div 2, b \div 2)
\* a >> n
Shr(a, n) == a \div (2 ^ n)

\* Result<Self, u8> and the outcome of a function that may panic.
Ok(val) == [ok |-> TRUE, val |-> val]
Err(val) == [ok |-> FALSE, val |-> val]
Returned(val) == [panic |-> FALSE, val |-> val]
Panicked == [panic |-> TRUE, val |-> 0]

decode_bcd8b(byte) == BitAnd(byte, 15) + Shr(BitAnd(byte, 240), 4) * 10
decode_bcd6b(byte) == BitAnd(byte, 15) + Shr(BitAnd(byte, 48), 4) * 10

\* Hours::try_from_bcd; the value of Ok is the byte held by Hours.
HoursTryFromBcd(bcd) ==
    IF Shr(bcd, 6) = 0 /\ bcd <= 36 /\ BitAnd(bcd, 15) <= 9      \* 0x24, 0xf
    THEN Ok(bcd)
    ELSE IF /\ Shr(bcd, 6) = 1 /\ bcd # 0
            /\ BitAnd(bcd, 31) <= 18 /\ BitAnd(bcd, 15) <= 9       \* 0x1f, 0x12
    THEN IF BitAnd(bcd, 32) = 0                                    \* 0x20
         THEN IF bcd = 18 THEN Ok(0) ELSE Ok(bcd)                  \* 0x12
         ELSE IF BitAnd(bcd, 15) >= 8
         THEN Ok((BitAnd(bcd, 31) + 24) % 256)                     \* + 0x18
         ELSE IF BitAnd(bcd, 31) # 18
         THEN Ok((BitAnd(bcd, 31) + 18) % 256)                     \* + 0x12
         ELSE Ok(bcd)
    ELSE Err(bcd)
\* Hours::bcd_24h and Hours::bin of the byte held.
HoursBcd24h(self) == self
HoursBin(self) == decode_bcd6b(self)

\* enum Month: the variants in the order of their discriminants 1..12.
Months ==
    <<"January", "February", "March", "April", "May", "June", "July",
      "August", "September", "October", "November", "December">>
\* Month::try_from_bcd
MonthTryFromBcd(bcd) ==
    IF bcd \in 1..9 THEN Ok(Months[bcd])
    ELSE IF bcd = 16 THEN Ok(Months[10])                           \* 0x10
    ELSE IF bcd = 17 THEN Ok(Months[11])                           \* 0x11
    ELSE IF bcd = 18 THEN Ok(Months[12])                           \* 0x12
    ELSE Err(bcd)
\* Month::from_bcd
MonthFromBcd(bcd) ==
    IF MonthTryFromBcd(bcd).ok THEN Returned(MonthTryFromBcd(bcd).val) ELSE Panicked
\* Month::from_bin
MonthFromBin(value) ==
    IF ~(value # 0 /\ value <= 12)
    THEN Panicked
    ELSE MonthFromBcd((value + (IF value > 9 THEN 6 ELSE 1)) % 256)
\* Month::bin: `self as u8`
MonthBin(self) == CHOOSE d \in 1..12 : Months[d] = self

\* Year::try_from_bcd; the value of Ok is the byte held by Year.
YearTryFromBcd(bcd) ==
    IF bcd <= 153 /\ BitAnd(bcd, 15) <= 9 THEN Ok(bcd) ELSE Err(bcd)   \* 0x99
\* Year::bin
YearBin(self) == decode_bcd8b(self)
\* Year::is_leap
YearIsLeap_OnesOnly(self) ==
    BitAnd(self, 1) = 0 /\ BitAnd(self, 2) = 0
YearIsLeap(self) ==
    /\ BitAnd(self, 1) = 0
    /\ (BitAnd(self, 16) = 0) # (BitAnd(self, 2) # 0)              \* 0x10, 0x2

\* The calls SpecRtc starts from.
RtcOf(fn, arg) == [NoRtcCall EXCEPT !.fn = fn, !.arg = arg]
RtcCalls ==
    {RtcOf("Hours", b) : b \in U8}
        \cup {RtcOf("Month", v) : v \in 0..MonthMax}
        \cup {RtcOf("Year", b) : b \in U8}

\* Everything rtc.rs does not touch.
nortc == <<clockvars, pc, now, schedvars, beginvars, actuators, blink,
           last_page, sensvars, fires, order, ctl_read, isrvars, norm,
           thvars, display, disp_call, width>>

\* Hours::try_from_bcd(arg), then bcd_24h() and bin() of the value.
HoursCall ==
    /\ rtc.fn = "Hours" /\ ~rtc.done
    /\ LET r == HoursTryFromBcd(rtc.arg)
       IN  rtc' = [rtc EXCEPT !.done = TRUE, !.ok = r.ok,
                              !.bcd = IF r.ok THEN HoursBcd24h(r.val) ELSE 0,
                              !.bin = IF r.ok THEN HoursBin(r.val) ELSE 0]
    /\ UNCHANGED nortc

\* Month::from_bin(arg), then bin() of the value.
MonthCall ==
    /\ rtc.fn = "Month" /\ ~rtc.done
    /\ LET r == MonthFromBin(rtc.arg)
       IN  rtc' = [rtc EXCEPT !.done = TRUE, !.ok = ~r.panic,
                              !.panic = r.panic,
                              !.month = IF r.panic THEN "" ELSE r.val,
                              !.bin = IF r.panic THEN 0 ELSE MonthBin(r.val)]
    /\ UNCHANGED nortc

\* Year::try_from_bcd(arg), then bin() and is_leap() of the value.
YearCall ==
    /\ rtc.fn = "Year" /\ ~rtc.done
    /\ LET r == YearTryFromBcd(rtc.arg)
       IN  rtc' = [rtc EXCEPT !.done = TRUE, !.ok = r.ok,
                              !.bcd = IF r.ok THEN r.val ELSE 0,
                              !.bin = IF r.ok THEN YearBin(r.val) ELSE 0,
                              !.leap = r.ok /\ YearIsLeap(r.val)]
    /\ UNCHANGED nortc

InitRtc ==
    /\ InitController /\ InitIsr /\ norm = NoCall
    /\ InitThermistors /\ conv = NoConv
    /\ InitDisplay /\ rtc \in RtcCalls
    /\ width = U32Bits
NextRtc == HoursCall \/ MonthCall \/ YearCall
SpecRtc == InitRtc /\ [][NextRtc]_vars

(***************************************************************************)
(* Properties                                                              *)
(***************************************************************************)
\* The deadline field of a slot, the call that checks it, and the period
\* the specification gives it (in ms).
Deadline(s) ==
    CASE s = "sample" -> next_sample
      [] s = "update" -> next_update
      [] s = "display" -> next_display
      [] s = "blink" -> next_blink
CheckedAt(s) ==
    CASE s = "sample" -> "try_sample"
      [] s = "update" -> "try_update"
      [] s = "display" -> "try_display"
      [] s = "blink" -> "try_blink"
StatedPeriod(s) ==
    CASE s = "sample" -> 1
      [] s = "update" -> 10
      [] s = "display" -> 100
      [] s = "blink" -> 1000
TimesIn(seq, x) == Cardinality({i \in DOMAIN seq : seq[i] = x})
Fired(s) == fires'[s] = fires[s] + 1
\* The step is the loop's check of slot s (not an interrupt taken before it).
Checking(s) == pc = CheckedAt(s) /\ pc' # pc

\* C1: in every loop pass a slot's task runs if and only if now >= the
\* slot's deadline at the moment it is checked; it runs at most once per
\* pass, never when now < deadline, and never outside its own check.
C1_FiresIffDue ==
    [][\A s \in Slots :
          /\ fires'[s] \in {fires[s], fires[s] + 1}
          /\ (Checking(s) => (Fired(s) <=> now >= Deadline(s)))
          /\ (~Checking(s) => ~Fired(s))
          /\ TimesIn(order', s) <= 1]_vars
\* A finished pass at a later clock value in which sampling ran and the
\* control slot, not yet due, did not.
C1_Witness ==
    /\ pc = "millis" /\ now >= 1
    /\ order = <<"sample">>
    /\ now < next_update

\* C2: each firing moves the slot's deadline forward by exactly its period
\* (1, 10, 100 ms), whatever now is, so deadline = period * firings.
C2_DeadlineIsPeriodTimesFirings ==
    /\ [](\A s \in Slots : Deadline(s) = StatedPeriod(s) * fires[s])
    /\ [][\A s \in Slots :
             /\ (Fired(s) => Deadline(s)' = Deadline(s) + StatedPeriod(s))
             /\ (~Fired(s) => Deadline(s)' = Deadline(s))]_vars
\* The control slot has fired late (now is past the deadline it had) and
\* its deadline is one period, not now plus one period.
C2_Witness ==
    /\ pc = "try_display" /\ "update" \in {order[i] : i \in DOMAIN order}
    /\ now >= 3 /\ next_update = 10

\* Periods a slot is behind: 0 when not due, else the k with
\* deadline + (k-1) * period <= now < deadline + k * period.
Backlog(s) ==
    IF now >= Deadline(s)
    THEN (now - Deadline(s)) \div StatedPeriod(s) + 1
    ELSE 0

\* C3: a slot that is k >= 1 periods behind when checked fires and is then
\* k-1 periods behind (no period is skipped), so it fires on consecutive
\* passes until deadline > now; whenever deadline > now the slot has fired
\* exactly now \div period + 1 times.
C3_CatchUpWithoutSkip ==
    /\ [](\A s \in Slots :
            Deadline(s) > now => fires[s] = now \div StatedPeriod(s) + 1)
    /\ [][\A s \in Slots :
             (Checking(s) /\ Backlog(s) >= 1)
                 => (Fired(s) /\ Backlog(s)' = Backlog(s) - 1)]_vars
\* The control slot was two or more periods behind: it has just fired and
\* is still due.
C3_Witness ==
    /\ pc = "try_display" /\ "update" \in {order[i] : i \in DOMAIN order}
    /\ now >= next_update

Rank(s) ==
    CASE s = "sample" -> 1
      [] s = "update" -> 2
      [] s = "display" -> 3
      [] s = "blink" -> 4

\* C4: within a pass the tasks run in the order sampling, control, display
\* (then blink); when sampling and the control algorithm both ran in a
\* pass, the control algorithm read the temperatures of that pass's sample.
C4_OrderAndFreshSample ==
    /\ \A i, j \in DOMAIN order : i < j => Rank(order[i]) < Rank(order[j])
    /\ (ctl_read.ran /\ TimesIn(order, "sample") = 1)
           => (ctl_read.seq = fires["sample"] /\ ctl_read.temps = reading)
\* A pass in which sampling, control (past the grace period) and display
\* all ran.
C4_Witness ==
    /\ ctl_read.ran
    /\ Len(order) >= 3
    /\ order[1] = "sample" /\ order[2] = "update" /\ order[3] = "display"

\* A control invocation that runs: the update slot is due at its check,
\* the target is set and the clock reading is past the grace period.
Invoked ==
    /\ pc = "try_update" /\ pc' # pc
    /\ now >= next_update
    /\ target_temp.some
    /\ now >= 2000

\* C5: on every control invocation that runs, a heater remembered ON goes
\* OFF exactly when habitat > target, and one remembered OFF goes ON exactly
\* when habitat < target - 1.0.
C5_HeaterRule ==
    [][Invoked =>
          /\ (heater => (heater' <=> ~(reading.habitat > target_temp.val)))
          /\ (~heater => (heater' <=> reading.habitat < target_temp.val - 100))]_vars
\* The control algorithm has just switched the heater OFF.
C5_Witness ==
    /\ ctl_read.ran /\ ctl_read.heater_was /\ ~heater
    /\ ctl_read.temps.habitat > target_temp.val

\* C6: with target 57.5 the heater keeps its state on every control
\* invocation whose habitat reading is strictly inside (56.5, 57.5); it goes
\* OFF -> ON only with habitat < 56.5 and ON -> OFF only with habitat > 57.5;
\* nothing but a control invocation changes it.
C6_NoChatter ==
    [][/\ (Invoked /\ target_temp.val = 5750) =>
             /\ (5650 < reading.habitat /\ reading.habitat < 5750
                     => heater' = heater)
             /\ (~heater /\ heater' => reading.habitat < 5650)
             /\ (heater /\ ~heater' => reading.habitat > 5750)
       /\ (~Invoked => heater' = heater)]_vars
\* A control invocation read a habitat temperature inside the band and left
\* the heater ON.
C6_Witness ==
    /\ ctl_read.ran /\ target_temp.val = 5750
    /\ 5650 < ctl_read.temps.habitat /\ ctl_read.temps.habitat < 5750
    /\ ctl_read.heater_was /\ heater

\* C7: on every control invocation that runs, a compressor remembered ON
\* goes OFF exactly when coolant < target - 20.0, one remembered OFF goes ON
\* exactly when coolant > target - 5.0, and with coolant in
\* [target - 20, target - 5] it keeps its state.
C7_CompressorRule ==
    [][Invoked =>
          LET coolant == reading.coolant
              target == target_temp.val
          IN  /\ (compressor => (compressor' <=> ~(coolant < target - 2000)))
              /\ (~compressor => (compressor' <=> coolant > target - 500))
              /\ (target - 2000 <= coolant /\ coolant <= target - 500
                      => compressor' = compressor)]_vars
\* The control algorithm has just switched the compressor OFF.
C7_Witness ==
    /\ ctl_read.ran /\ ctl_read.compressor_was /\ ~compressor
    /\ ctl_read.temps.coolant < target_temp.val - 2000

\* C8: the control algorithm commands the actuators only when the target
\* is set and at least 2000 ms have passed since the begin() call that set
\* it, at whatever clock value that call was made.
C8_GraceSinceActivation ==
    ctl_read.ran =>
        /\ target_temp.some
        /\ begin_at.some
        /\ MILLIS - begin_at.val >= 2000
\* C9: while the target is unset the heater and the compressor are
\* inactive and the three duties are 0.
C9_InertWithoutTarget ==
    ~target_temp.some =>
        /\ ~heater /\ ~compressor
        /\ duty_a = 0 /\ duty_b = 0 /\ duty_c = 0
\* The update slot has fired past the grace period with the target unset.
C9_Witness ==
    /\ ~target_temp.some
    /\ now >= 2000
    /\ pc = "try_display" /\ TimesIn(order, "update") = 1

\* C10: once latched the target never changes or clears; a begin() that
\* finds it latched changes nothing of the controller; the first begin()
\* latches its argument and activates the master relay.
C10_BeginIdempotent ==
    [][/\ (target_temp.some => target_temp' = target_temp)
       /\ (rebegin' # rebegin =>
              UNCHANGED <<target_temp, master_120vac, schedvars, actuators,
                          blink, last_page, sensvars, clockvars>>)
       /\ (begin_at' # begin_at =>
              /\ ~target_temp.some /\ target_temp'.some
              /\ target_temp'.val \in Targets
              /\ master_120vac')]_vars
\* A later begin() with another target value was ignored.
C10_Witness ==
    /\ target_temp.some /\ rebegin.some
    /\ rebegin.val # target_temp.val

\* C11: on every control invocation that runs, the condenser fan duty
\* becomes normalize(condenser, 75, 100) when condenser > 80 and 0
\* otherwise; condenser = 90 gives 0.6.
C11_CondenserFanRule ==
    [][Invoked =>
          /\ duty_a' = IF reading.condenser > 8000
                       THEN normalize(reading.condenser, 7500, 10000)
                       ELSE 0
          /\ (reading.condenser = 9000 => duty_a' = 6000)]_vars
\* A control invocation read condenser = 90 and set the duty to 0.6.
C11_Witness ==
    /\ ctl_read.ran
    /\ ctl_read.temps.condenser = 9000
    /\ duty_a = 6000

\* C12: on every control invocation that runs, the coolant pump duty
\* becomes normalize(coolant - evaporator, -5, 15) when
\* coolant - evaporator > 5 and 0 otherwise; coolant = 50 with
\* evaporator = 40 gives 0.75.
C12_CoolantPumpRule ==
    [][Invoked =>
          LET delta == reading.coolant - reading.evaporator
          IN  /\ duty_c' = IF delta > 500
                           THEN normalize(delta, -500, 1500)
                           ELSE 0
              /\ (reading.coolant = 5000 /\ reading.evaporator = 4000
                      => duty_c' = 7500)]_vars
\* A control invocation read coolant = 50, evaporator = 40 and set the
\* pump duty to 0.75.
C12_Witness ==
    /\ ctl_read.ran
    /\ ctl_read.temps.coolant = 5000 /\ ctl_read.temps.evaporator = 4000
    /\ duty_c = 7500

\* C13: on every control invocation that runs, the habitat fan duty
\* becomes 1 when habitat - target > 0.05 and coolant < target, becomes 0
\* when habitat - target < -0.05, and otherwise (habitat - target > 0.05
\* with coolant >= target, or habitat - target in [-0.05, 0.05]) keeps the
\* value the previous invocation left; nothing else changes it.
C13_HabitatFanRule ==
    [][/\ Invoked =>
             LET delta == reading.habitat - target_temp.val
                 cooling == delta > 5 /\ reading.coolant < target_temp.val
             IN  /\ (cooling => duty_b' = 10000)
                 /\ (delta < -5 => duty_b' = 0)
                 /\ (~cooling /\ ~(delta < -5) => duty_b' = duty_b)
       /\ (~Invoked => duty_b' = duty_b)]_vars
\* A control invocation read a habitat above target + 0.05 with the
\* coolant not below the target, and the fan is still at the duty 1 an
\* earlier invocation gave it.
C13_Witness ==
    /\ ctl_read.ran
    /\ ctl_read.temps.habitat - target_temp.val > 5
    /\ ctl_read.temps.coolant >= target_temp.val
    /\ duty_b = 10000

\* C14: in every reachable state the habitat fan duty is exactly 0 or
\* exactly 1.
C14_HabitatFanAllOrNothing == duty_b \in {0, 10000}
\* A control invocation has driven the fan to full with a habitat 2.5
\* above the target and the coolant below it.
C14_Witness ==
    /\ ctl_read.ran
    /\ ctl_read.temps.habitat - target_temp.val = 250
    /\ ctl_read.temps.coolant < target_temp.val
    /\ duty_b = 10000

\* C15: for all lo < hi, normalize(lo, lo, hi) = 0, normalize(hi, lo, hi) = 1,
\* the result is 0 for v < lo and 1 for v > hi, it is always within [0, 1],
\* and it is non-decreasing in v.
C15_NormalizeContract ==
    norm.done =>
        /\ norm.min < norm.max
        /\ (norm.value = norm.min => norm.result = 0)
        /\ (norm.value = norm.max => norm.result = 10000)
        /\ (norm.value < norm.min => norm.result = 0)
        /\ (norm.value > norm.max => norm.result = 10000)
        /\ 0 <= norm.result /\ norm.result <= 10000
        /\ (norm.value <= norm.other => norm.result <= norm.other_result)
\* A call with one value below the range and one strictly inside it, the
\* second mapped strictly between 0 and 1.
C15_Witness ==
    /\ norm.done
    /\ norm.value < norm.min /\ norm.result = 0
    /\ norm.min < norm.other /\ norm.other < norm.max
    /\ 0 < norm.other_result /\ norm.other_result < 10000

\* C16 (scenario A): with target 57.5, a control invocation that runs with
\* habitat 55.0, coolant 40.0, condenser 70.0, evaporator 38.0 leaves the
\* heater ON, leaves the compressor as it was, and sets the condenser fan
\* duty and the coolant pump duty to 0.
C16_ScenarioA ==
    [][(/\ Invoked
        /\ target_temp.val = 5750
        /\ reading.habitat = 5500 /\ reading.coolant = 4000
        /\ reading.condenser = 7000 /\ reading.evaporator = 3800)
          => /\ heater'
             /\ compressor' = compressor
             /\ duty_a' = 0
             /\ duty_c' = 0]_vars
\* The scenario has run with the compressor ON: the heater is ON, the
\* compressor is still ON and both duties are 0.
C16_Witness ==
    /\ ctl_read.ran /\ target_temp.val = 5750
    /\ ctl_read.temps = [habitat |-> 5500, coolant |-> 4000,
                         condenser |-> 7000, evaporator |-> 3800]
    /\ ctl_read.compressor_was /\ compressor
    /\ heater /\ duty_a = 0 /\ duty_c = 0

\* A step of millis() that returns to the caller.
Returns == rd_pc = "read" /\ rd_pc' = "call"

\* C17: the values successive millis() calls return never decrease,
\* however the timer interrupts interleave with the calls (the clock stays
\* below 2^32 here).
C17_MillisNonDecreasing == [][now' >= now]_vars
\* A call is about to return more than the call before it returned, and
\* that one returned more than 0: interrupts ran before and between them.
C17_Witness ==
    /\ rd_pc = "read" /\ Len(rd_bytes) = 4
    /\ now > 0
    /\ FromBytes(rd_bytes) > now

\* C18: the handler is never in progress and cannot start while millis()
\* reads; every value millis() returns is MILLIS as the last completed run
\* of the handler left it, that is the clock after a whole number
\* (OVERFLOWS) of runs; the handler's steps change nothing of the main
\* program and millis() writes none of the clock cells.
C18_ReadIsAtomic ==
    /\ [](rd_pc = "read" => isr_pc = "idle" /\ ~iflag)
    /\ [][/\ Returns =>
               /\ now' = MILLIS
               /\ now' = (OVERFLOWS * 128) \div 125
          /\ (isr_pc # "idle" \/ isr_pc' # "idle")
                 => UNCHANGED <<now, rd_pc, rd_bytes, loopvars>>
          /\ (rd_pc' # rd_pc \/ rd_bytes' # rd_bytes)
                 => UNCHANGED <<clockvars, isr_pc, isr_millis, isr_fract>>]_vars
\* millis() has loaded the four bytes of MILLIS = 256, the value at which
\* the second byte changes, after 250 runs of the handler.
C18_Witness ==
    /\ rd_pc = "read" /\ rd_bytes = <<0, 1, 0, 0>>
    /\ OVERFLOWS = 250

\* C19: at 16 MHz, after every completed run of the handler
\* MILLIS * 125 + FRACT = 128 * OVERFLOWS and 0 <= FRACT < 125, so
\* MILLIS = floor(OVERFLOWS * 1024 / 1000); a run adds 1 ms, and one more
\* exactly when the fraction plus 3 reaches 125.
C19_ZeroDrift ==
    /\ [](isr_pc = "idle" =>
             /\ MILLIS * 125 + FRACT = 128 * OVERFLOWS
             /\ 0 <= FRACT /\ FRACT < 125
             /\ MILLIS = (OVERFLOWS * 1024) \div 1000)
    /\ [][isr_pc = "count" /\ isr_pc' = "idle" =>
             /\ OVERFLOWS' = OVERFLOWS + 1
             /\ MILLIS = (OVERFLOWS * 1024) \div 1000
                    + (IF ((OVERFLOWS * 128) % 125) + 3 >= 125 THEN 2 ELSE 1)]_vars
\* The run that brings the fraction to exactly 125 has completed: the
\* fraction is back at 0 and 125 runs have counted 128 ms.
C19_Witness ==
    /\ isr_pc = "idle"
    /\ OVERFLOWS = 125 /\ MILLIS = 128 /\ FRACT = 0

\* C20: the filter coefficient starts at 1.0 and is halved at the end of
\* each of the first 10 aggregate sample() calls, then stays at 2^-10: it
\* never grows, the n-th call applies 2^-(min(n, 11) - 1), after 11 calls
\* it has its final value, and the step counter never goes below 0
\* (sens is in 1/1024, so 1.0 is 1024 and 2^-10 is 1).
C20_CoefficientSchedule ==
    /\ [](LET halvings == Min2(fires["sample"], 10)
          IN  /\ sens * (2 ^ halvings) = 1024
              /\ sens_steps = 10 - halvings
              /\ sens_steps >= 0
              /\ (fires["sample"] >= 11 => sens = 1))
    /\ [][/\ sens' <= sens
          /\ (Fired("sample") =>
                 /\ sens * (2 ^ (Min2(fires'["sample"], 11) - 1)) = 1024
                 /\ sens' = IF fires'["sample"] <= 10 THEN sens \div 2 ELSE sens)
          /\ (~Fired("sample") => sens' = sens)]_vars
\* The 11th aggregate sample() call has run: it applied 2^-10 and left the
\* coefficient and the exhausted step counter as they were.
C20_Witness ==
    /\ fires["sample"] = 11
    /\ sens = 1 /\ sens_steps = 0

\* C21: each aggregate sample() updates every channel by
\* filtered <- filtered * (1 - c) + raw * c with the same coefficient c for
\* the four channels (1, 1/2, 1/4, .. by the number of calls completed; c
\* changes only after the fourth channel is updated); after the first
\* aggregate sample() each filtered value equals the channel's raw code.
C21_FilterUpdate ==
    /\ [](fires["sample"] = 1 /\ sam_idx = 0 =>
             \A ch \in ChannelSet : th_sample[ch] = 1024 * th_raw[ch])
    /\ [][/\ (sam_idx \in 1..4 /\ sam_idx' # sam_idx) =>
                LET ch == Channels[sam_idx]
                    c == 1024 \div (2 ^ Min2(fires["sample"], 10))
                IN  /\ th_sample'[ch] =
                          (th_sample[ch] * (1024 - c) + 1024 * th_raw[ch] * c) \div 1024
                    /\ \A other \in ChannelSet \ {ch} :
                          th_sample'[other] = th_sample[other]
                    /\ sens = c /\ sens' = sens
          /\ (sens' # sens => sam_idx = 5 /\ sam_idx' = 0)
          /\ (sam_idx' = 0 /\ sam_idx # 0 => sam_idx = 5)]_vars
\* The second aggregate sample() has run on other codes than the first:
\* the habitat channel holds (529 + 800) / 2 = 664.5.
C21_Witness ==
    /\ fires["sample"] = 2 /\ sam_idx = 0
    /\ th_raw["habitat"] = 800
    /\ th_sample["habitat"] = 680448

\* C22: every sample() on a channel sets its cached kelvin value to None;
\* kelvin() returns the cached value when there is one and otherwise
\* computes and caches it; so a cached value is always the conversion of
\* the channel's current filtered sample, and reads with no sample between
\* them return the same value.
C22_KelvinCache ==
    /\ [](\A ch \in ChannelSet :
             th_kelvin[ch].some =>
                 th_kelvin[ch].val = KelvinOf(Thermistors[ch], th_sample[ch]))
    /\ [][/\ (sam_idx \in 1..4 /\ sam_idx' # sam_idx) =>
                ~th_kelvin'[Channels[sam_idx]].some
          /\ \A ch \in ChannelSet :
                /\ (th_sample'[ch] # th_sample[ch] => ~th_kelvin'[ch].some)
                /\ (th_ret'[ch].n > th_ret[ch].n =>
                       /\ (th_kelvin[ch].some =>
                              /\ th_ret'[ch].val = th_kelvin[ch].val
                              /\ th_kelvin'[ch] = th_kelvin[ch])
                       /\ (th_ret[ch].n >= 1 => th_ret'[ch].val = th_ret[ch].val)
                       /\ th_kelvin'[ch].some
                       /\ th_kelvin'[ch].val = th_ret'[ch].val)]_vars
\* After the second aggregate sample() the habitat temperature has been
\* read twice with no sample between the reads; the value cached before
\* that sample was of another filtered value.
C22_Witness ==
    /\ fires["sample"] = 2 /\ sam_idx = 0
    /\ th_ret["habitat"].n = 2
    /\ th_sample["habitat"] = 680448
    /\ th_kelvin["habitat"].some
    /\ th_kelvin["habitat"].val = th_ret["habitat"].val

\* C23: in every reachable state the three PWM duties lie in [0, 1]; the
\* values the control algorithm asks for (normalize of the condenser
\* temperature and of coolant - evaporator, or 0; 1 or 0 for the habitat
\* fan) are themselves in [0, 1].
C23_DutiesInUnitRange ==
    /\ [](/\ 0 <= duty_a /\ duty_a <= 10000
          /\ 0 <= duty_b /\ duty_b <= 10000
          /\ 0 <= duty_c /\ duty_c <= 10000)
    /\ [][Invoked =>
             LET asked_a == normalize(reading.condenser, 7500, 10000)
                 asked_c == normalize(reading.coolant - reading.evaporator,
                                      -500, 1500)
             IN  /\ 0 <= asked_a /\ asked_a <= 10000
                 /\ 0 <= asked_c /\ asked_c <= 10000
                 /\ duty_a' \in {0, asked_a}
                 /\ duty_c' \in {0, asked_c}]_vars
\* A control invocation read coolant - evaporator = 18, above the range of
\* the pump's map, and the pump duty is 1.
C23_Witness ==
    /\ ctl_read.ran
    /\ ctl_read.temps.coolant - ctl_read.temps.evaporator = 1800
    /\ duty_c = 10000

\* C24: whenever the control algorithm commands the actuators, at least 11
\* aggregate sample() calls have happened and the filter coefficient has
\* its final value 2^-10, however the loop's passes fall relative to the
\* clock.
C24_FilterSettledBeforeControl ==
    ctl_read.ran =>
        /\ fires["sample"] >= 11
        /\ sens = 1 /\ sens_steps = 0

C26_ClearOnVariantChange ==
    /\ disp_call.op = "set_page" =>
          /\ display.page = disp_call.arg
          /\ display.needs_clear =
                (\/ disp_call.was.needs_clear
                 \/ disp_call.arg.variant # disp_call.was.page.variant)
    /\ disp_call.op = "refresh" =>
          /\ disp_call.cleared = disp_call.was.needs_clear
          /\ ~display.needs_clear
          /\ display.page = disp_call.was.page
\* set_page replaced a page by one of the same variant with another
\* payload while no clear was pending, and none is pending after it.
C26_Witness ==
    /\ disp_call.op = "set_page"
    /\ disp_call.arg.variant = disp_call.was.page.variant
    /\ disp_call.arg.payload # disp_call.was.page.payload
    /\ ~disp_call.was.needs_clear
    /\ ~display.needs_clear

\* The bytes the DS1307 hours register holds in 24-hour format (0x00-0x23)
\* and in 12-hour format (bit 6 set, bit 5 PM, hour 01-12 in bits 4-0), and
\* the hour of the day each stands for.
Valid24(b) == b <= 35 /\ b % 16 <= 9
Hour12(b) == ((b \div 16) % 2) * 10 + (b % 16)
Valid12(b) ==
    /\ b \div 64 = 1
    /\ b % 16 <= 9
    /\ Hour12(b) \in 1..12
HourOf(b) ==
    IF Valid24(b) THEN (b \div 16) * 10 + (b % 16)
    ELSE IF (b \div 32) % 2 = 0
    THEN (IF Hour12(b) = 12 THEN 0 ELSE Hour12(b))
    ELSE (IF Hour12(b) = 12 THEN 12 ELSE Hour12(b) + 12)

\* C27: Hours::try_from_bcd returns Ok exactly for the valid 24-hour and
\* 12-hour BCD bytes; the value is normalized to 24-hour format: bcd_24h()
\* is a valid BCD in 0x00-0x23 and bin() is the hour of the day.
C27_HoursNormalized ==
    (rtc.fn = "Hours" /\ rtc.done) =>
        /\ rtc.ok <=> (Valid24(rtc.arg) \/ Valid12(rtc.arg))
        /\ rtc.ok =>
              /\ Valid24(rtc.bcd)
              /\ rtc.bin \in 0..23
              /\ rtc.bin = HourOf(rtc.arg)

\* C28: Month::from_bin(v) returns the month numbered v for v in 1..12,
\* without panicking.
C28_MonthFromBin ==
    (rtc.fn = "Month" /\ rtc.done /\ rtc.arg \in 1..12) =>
        /\ ~rtc.panic
        /\ rtc.bin = rtc.arg

\* C29: for every valid two-digit BCD year, is_leap() is true exactly when
\* bin() is divisible by 4.
C29_LeapRule ==
    (rtc.fn = "Year" /\ rtc.done /\ rtc.ok) =>
        /\ rtc.bin \in 0..99
        /\ rtc.leap <=> (rtc.bin % 4 = 0)
\* Year 0x96: a leap year whose ones digit alone is not a multiple of 4.
C29_Witness ==
    /\ rtc.fn = "Year" /\ rtc.done /\ rtc.ok
    /\ rtc.arg = 150 /\ rtc.bin = 96 /\ rtc.leap

\* C30: for each channel, the sample at which the thermistor's resistance
\* equals r0 converts to 25.0 degrees Celsius within 1e-3 (1000 millionths
\* of a degree).
C30_CalibrationPoint ==
    (conv.done /\ conv.sample = CalSample(Thermistors[conv.channel])) =>
        /\ conv.celsius >= 25 * Micro - 1000
        /\ conv.celsius <= 25 * Micro + 1000
\* The habitat channel (r0 20 kOhm, bias 21.44 kOhm) converted at its
\* calibration sample, 529.27 codes.
C30_Witness ==
    /\ conv.done /\ conv.channel = "habitat"
    /\ conv.sample = CalSample(Thermistors["habitat"])
    /\ conv.sample \div 1024 = 529
    /\ conv.kelvin = conv.celsius + 273150000

\* C31: at the start of every loop pass next_sample <= next_update, so in
\* a pass where the control slot fires the sampling slot has fired before
\* it, and the control algorithm never runs in a pass without a sample.
C31_SampleBeforeControl ==
    /\ [](pc \in {"millis", "try_sample"} => next_sample <= next_update)
    /\ [](ctl_read.ran => (order # <<>> /\ order[1] = "sample"))
    /\ [][(Checking("update") /\ Fired("update")) => order = <<"sample">>]_vars
\* The control algorithm has run in a pass that started behind the clock:
\* the sample of that pass came first, and sampling is still behind.
C31_Witness ==
    /\ ctl_read.ran
    /\ order[1] = "sample" /\ order[2] = "update"
    /\ next_sample < now
    /\ next_update > 10

\* C32: across the wraparound of the millisecond counter every slot keeps
\* firing once per period: a slot has never fired more often than once per
\* period elapsed (no firing on consecutive passes while the clock stands)
\* and a slot found not due is due again within one period (no stall).
C32_PeriodicAcrossWrap ==
    /\ [](\A s \in Slots : fires[s] <= Elapsed \div StatedPeriod(s) + 1)
    /\ [][\A s \in Slots :
             (Checking(s) /\ ~Fired(s)) =>
                 (Deadline(s) - now) % (2 ^ width) \in 1..StatedPeriod(s)]_vars

\* C33: try_update moves next_update on by 10 in every pass where it is
\* due, also while the target is unset or now < GRACE_PERIOD (the actuators
\* are then left alone); so when the control algorithm runs, the deadline
\* it serves is less than one period old and the new deadline is ahead of
\* now: the algorithm runs at most once per 10 ms, without a backlog.
C33_SuppressedCyclesConsumed ==
    [][Checking("update") =>
          /\ Due(now, next_update) => next_update' = next_update + StatedPeriod("update")
          /\ (Due(now, next_update) /\ (~target_temp.some \/ now < GRACE_PERIOD)) =>
                (Fired("update") /\ ~ctl_read'.ran /\ UNCHANGED actuators)
          /\ ctl_read'.ran =>
                /\ now - next_update < StatedPeriod("update")
                /\ next_update' > now]_vars
\* The first run of the control algorithm, at the end of the grace period,
\* after a target set late: the cycles suppressed before it left nothing
\* behind, the next deadline is one period after the grace period.
C33_Witness ==
    /\ ctl_read.ran
    /\ begin_at.some /\ begin_at.val > 0
    /\ now \in GRACE_PERIOD..(GRACE_PERIOD + 1)
    /\ next_update = GRACE_PERIOD + StatedPeriod("update")
    /\ fires["update"] = GRACE_PERIOD \div StatedPeriod("update") + 1

\* C34: the heater or the compressor being active implies that the master
\* 120 VAC relay is active: they are activated only once the target is
\* set, begin() activates the master relay when it sets the target, and
\* nothing deactivates the master relay or unsets the target.
C34_MasterBeforeLoads ==
    /\ []((heater \/ compressor) => (master_120vac /\ target_temp.some))
    /\ [](target_temp.some => master_120vac)
    /\ [][(master_120vac => master_120vac')
            /\ (target_temp.some => target_temp' = target_temp)]_vars
\* Both loads are active, after a target set while the program was running.
C34_Witness ==
    /\ heater /\ compressor /\ master_120vac
    /\ begin_at.some /\ begin_at.val > 0

\* C35: no temperature is read before the first aggregate sample(): when
\* print_temps (the display slot firing) or the control algorithm reads
\* the thermistors, sampling has fired at least once, and in the first
\* pass it fires before the two are checked.
C35_SampleBeforeFirstRead ==
    /\ [](fires["display"] > 0 => fires["sample"] > 0)
    /\ [](ctl_read.ran => ctl_read.seq > 0)
    /\ [][/\ (Checking("display") /\ Fired("display")) => fires["sample"] > 0
          /\ (Checking("update") /\ ctl_read'.ran) => fires["sample"] > 0
          /\ (Checking("sample") /\ fires["sample"] = 0) => Fired("sample")]_vars
\* The first pass at its display check: the display has drawn the
\* temperatures of the one sample taken before it in the same pass.
C35_Witness ==
    /\ pc = "try_blink" /\ now = 0
    /\ order = <<"sample", "update", "display">>
    /\ fires["sample"] = 1 /\ fires["display"] = 1
    /\ last_page = "Temps"

\* C36: once a channel has been sampled, its filtered value lies between
\* the least and the greatest ADC code sampled on it so far, hence in
\* [0, 1023]; the coefficient of every update is in (0, 1].
C36_FilteredWithinSeen ==
    /\ sens \in 1..1024
    /\ \A ch \in ChannelSet :
          th_seen[ch].any =>
              /\ th_sample[ch] >= Code(th_seen[ch].min)
              /\ th_sample[ch] <= Code(th_seen[ch].max)
              /\ th_seen[ch].min >= 0 /\ th_seen[ch].max <= FullScale
\* The coolant channel has read both 0 and 1023 in three or more samples
\* and its filtered value is strictly between the two.
C36_Witness ==
    /\ fires["sample"] >= 3
    /\ th_seen["coolant"].min = 0 /\ th_seen["coolant"].max = FullScale
    /\ th_sample["coolant"] > Code(0)
    /\ th_sample["coolant"] < Code(FullScale)

\* C37: the condenser fan duty is 0 or strictly greater than 0.2 and at
\* most 1, the coolant pump duty is 0 or strictly greater than 0.5 and at
\* most 1: no duty in (0, 0.2], respectively (0, 0.5], is commanded.
C37_SwitchOnGap ==
    /\ duty_a = 0 \/ (duty_a > DutyScale(2, 10) /\ duty_a <= DutyScale(1, 1))
    /\ duty_c = 0 \/ (duty_c > DutyScale(5, 10) /\ duty_c <= DutyScale(1, 1))
\* The control algorithm has run on a condenser at 80.01 and a coolant
\* 5.01 degrees above the evaporator: both outputs are on, just above
\* 0.2 and 0.5.
C37_Witness ==
    /\ ctl_read.ran
    /\ ctl_read.temps.condenser = F(80, 1)
    /\ ctl_read.temps.coolant - ctl_read.temps.evaporator = F(5, 1)
    /\ duty_a > DutyScale(2, 10) /\ duty_a < DutyScale(21, 100)
    /\ duty_c > DutyScale(5, 10) /\ duty_c < DutyScale(51, 100)

\* No slot is due at the clock value t.
Quiet(t) == \A s \in Slots : t < Deadline(s)

\* C38: with the clock standing at a value, catch-up ends: every pass in
\* which anything fires also fires the sampling slot, which fires at most
\* clock + 1 times in all, so after at most clock + 1 passes no slot is
\* due; from then on a pass changes nothing; and that point is reached.
C38_CatchUpTerminates ==
    /\ [](fires["sample"] <= MILLIS + 1)
    /\ []((pc = "millis" /\ fires["sample"] = MILLIS + 1) => Quiet(MILLIS))
    /\ [][/\ (Checking("sample") /\ ~Fired("sample")) => Quiet(now)
          /\ (Quiet(now) /\ pc # "millis" /\ pc' # pc) =>
                UNCHANGED <<clockvars, now, schedvars, beginvars, actuators,
                            blink, last_page, sensvars, fires, order, ctl_read>>
          /\ (Quiet(MILLIS) /\ now = MILLIS /\ pc = "millis" /\ pc' # pc) =>
                UNCHANGED <<clockvars, now, schedvars, beginvars, actuators,
                            blink, last_page, sensvars, fires>>]_vars
    /\ <>[]Quiet(MILLIS)
\* The clock has stood at CatchMax while the loop caught up from the
\* deadlines of the first pass: CatchMax + 1 samples in all, nothing due.
C38_Witness ==
    /\ MILLIS = CatchMax /\ now = MILLIS /\ pc = "millis"
    /\ fires["sample"] = CatchMax + 1
    /\ fires["update"] = CatchMax \div StatedPeriod("update") + 1
    /\ Quiet(MILLIS)

\* The firings of a slot that serve its deadlines up to the clock value t.
Served(s, t) == t \div StatedPeriod(s) + 1
\* The control cycles whose deadline lies from GRACE_PERIOD to LiveEnd.
LiveCycles == (GRACE_PERIOD \div UPDATE_INTERVAL)..(LiveEnd \div UPDATE_INTERVAL)

====
